---------------------------- MODULE Spec2Model ----------------------------
(***************************************************************************)
(* Moniezi v4: the rule-based insight engine (services/insightsEngine.ts), *)
(* its dismissal store (one localStorage slot) and the callers that use    *)
(* them.                                                                   *)
(*                                                                         *)
(* Conventions of the model                                                *)
(*  - An instant (a JS Date) is a number of hours since 1970-01-01T00:00Z. *)
(*    A calendar day is a number of days since 1970-01-01.                 *)
(*  - The host's timezone is a fixed offset tz in hours east of UTC (no    *)
(*    daylight saving): local time = UTC + tz.                             *)
(*  - A date string is [k, d]: k = "ymd" is a well formed "YYYY-MM-DD" for *)
(*    day d (JS parses it as UTC midnight of that day); k = "bad" is a     *)
(*    string that does not parse and starts with the digits of year d      *)
(*    (d = 0: with none); k = "none" is an absent field.                   *)
(*  - An amount is <<n>> for the number n and <<>> for an absent or        *)
(*    non-numeric value.  Amounts are whole currency units and arithmetic  *)
(*    is exact (rational), so the rounding of IEEE doubles is not          *)
(*    modelled.                                                            *)
(*  - A formatted number (toFixed) is the integer of its digits: 200.00    *)
(*    is 20000 at two decimals, 25.0 is 250 at one decimal.                *)
(*  - An insight id, a template string, is the tuple of its literal prefix *)
(*    and of the values interpolated into it.                              *)
(***************************************************************************)
EXTENDS Integers, Sequences, FiniteSets, TLC

VARIABLES
    transactions,   \* args.transactions
    invoices,       \* args.invoices
    taxPayments,    \* args.taxPayments
    settings,       \* args.settings
    now,            \* the host clock: what new Date() returns
    tz,             \* the host timezone offset, hours east of UTC
    insights,       \* the list the last generateInsights call returned
    count,          \* what the last getInsightCount call returned
    storage,        \* the localStorage slot DISMISSED_KEY
    dismissedState, \* the list the dashboard's last getDismissedInsightIds
                    \* call returned (it keeps it as a Set)
    added,          \* history: the ids written to the slot since it was last
                    \* replaced, as far as the writes went through
    selectedCategory, \* the dashboard's category filter
    selectedSeverity, \* the dashboard's severity filter
    sortBy,         \* the dashboard's sort order
    userDismissed,  \* history: the ids the user dismissed in the dashboard
                    \* since the last reset
    activePage,     \* App: the page shown
    loadingInsight, \* App: the loading flag of the insight card
    insight,        \* App: the insight text, as the number of the request
                    \* whose result it is (0: the initial empty text)
    pending,        \* the getFinancialInsights calls in flight, by number
    started,        \* history: the number of loadInsight calls so far
    drawerMode,     \* App: "edit_inv", "new_inv" or "null"
    activeItem,     \* App: <<invoice>>, or <<>> for null
    lastOp          \* history: the operation performed last, whether its
                    \* storage access went through, and its argument

vars == <<transactions, invoices, taxPayments, settings, now, tz,
          insights, count, storage, dismissedState, added, selectedCategory,
          selectedSeverity, sortBy, userDismissed, activePage,
          loadingInsight, insight, pending, started, drawerMode, activeItem,
          lastOp>>

argVars == <<transactions, invoices, taxPayments, settings>>
envVars == <<now, tz>>
dashVars == <<selectedCategory, selectedSeverity, sortBy, userDismissed>>
loadVars == <<activePage, loadingInsight, insight, pending, started>>
drawerVars == <<drawerMode, activeItem>>
appVars  == <<loadVars, drawerVars>>

-----------------------------------------------------------------------------
(* Arithmetic helpers *)

Abs(x) == IF x < 0 THEN -x ELSE x

Pow10(k) == IF k = 0 THEN 1 ELSE IF k = 1 THEN 10 ELSE 100

\* floor(a / b) for b > 0 and any integer a
FloorDiv(a, b) == IF a >= 0 THEN a \div b ELSE -((-a + b - 1) \div b)

\* Number.prototype.toFixed(digits) of the non-negative rational num/den:
\* the integer n with n / 10^digits nearest to num/den, the larger on a tie.
ToFixed(num, den, digits) ==
    (2 * num * Pow10(digits) + den) \div (2 * den)

-----------------------------------------------------------------------------
(* The calendar of JS Date (proleptic Gregorian) *)

\* day number of the civil date y-m-d
DaysFromCivil(y, m, d) ==
    LET yy  == IF m <= 2 THEN y - 1 ELSE y
        era == yy \div 400
        yoe == yy - era * 400
        mp  == IF m > 2 THEN m - 3 ELSE m + 9
        doy == (153 * mp + 2) \div 5 + d - 1
        doe == yoe * 365 + yoe \div 4 - yoe \div 100 + doy
    IN  era * 146097 + doe - 719468

\* <<year, month (1..12), day>> of a day number >= 0
CivilFromDays(z0) ==
    LET z   == z0 + 719468
        era == z \div 146097
        doe == z - era * 146097
        yoe == (doe - doe \div 1460 + doe \div 36524 - doe \div 146096) \div 365
        doy == doe - (365 * yoe + yoe \div 4 - yoe \div 100)
        mp  == (5 * doy + 2) \div 153
        d   == doy - (153 * mp + 2) \div 5 + 1
        m   == IF mp < 10 THEN mp + 3 ELSE mp - 9
        y   == yoe + era * 400 + (IF m <= 2 THEN 1 ELSE 0)
    IN  <<y, m, d>>

YearOfDay(day)  == CivilFromDays(day)[1]
MonthOfDay(day) == CivilFromDays(day)[2]

\* the UTC day and the local day an instant falls in
UtcDay(t)        == FloorDiv(t, 24)
LocalDay(t, off) == FloorDiv(t + off, 24)

-----------------------------------------------------------------------------
(* Date and amount fields of the records *)

Ymd(d)     == [k |-> "ymd", d |-> d]
BadDate(y) == [k |-> "bad", d |-> y]
NoDate     == [k |-> "none", d |-> 0]
\* a date field holding a number, not a string: the milliseconds of day d
NumDate(d) == [k |-> "num", d |-> d]

NoAmount == <<>>
Amt(n)   == <<n>>

\* Number(x) || 0
NumberOr0(a) == IF Len(a) = 0 THEN 0 ELSE a[1]

\* Math.abs(Number(x) || 0)
AbsAmount(a) == Abs(NumberOr0(a))

\* mutant of isoDate: slice(0, 7), the month only (written as its first day)
isoDate_MonthOnly(t) ==
    DaysFromCivil(YearOfDay(UtcDay(t)), MonthOfDay(UtcDay(t)), 1)

\* d.toISOString().slice(0, 10): the UTC day of the instant
isoDate(t) == UtcDay(t)

\* d.toISOString().slice(0, 7): <<year, month>> of the UTC day of the instant
isoMonth(t) == <<YearOfDay(UtcDay(t)), MonthOfDay(UtcDay(t))>>

\* setHours(0, 0, 0, 0): local midnight of the local day of the instant
startOfDay(t, off) == LocalDay(t, off) * 24 - off

\* the instant as <<t>>, or <<>> for null (Invalid Date)
parseDate(ds) == IF ds.k \in {"ymd", "num"} THEN <<ds.d * 24>> ELSE <<>>

\* dateStr?.startsWith(String(year))
startsWithYear(ds, year) ==
    CASE ds.k = "ymd" -> YearOfDay(ds.d) = year
      [] ds.k = "bad" -> ds.d = year
      [] OTHER        -> FALSE

\* today.getFullYear(), today.getMonth() (0..11): local fields of an instant
getFullYear(t, off) == YearOfDay(LocalDay(t, off))
getMonth(t, off)    == MonthOfDay(LocalDay(t, off)) - 1

-----------------------------------------------------------------------------
(* Sequence helpers (Array.prototype.filter / reduce / includes) *)

RECURSIVE SumAmounts(_)
\* reduce((s, r) => s + Math.abs(Number(r.amount) || 0), 0)
SumAmounts(rs) ==
    IF Len(rs) = 0 THEN 0 ELSE AbsAmount(Head(rs).amount) + SumAmounts(Tail(rs))

Range(s) == {s[i] : i \in 1..Len(s)}

-----------------------------------------------------------------------------
(* Helpers of the engine *)

\* sumTx(transactions, type)
sumTx(txs, type) ==
    LET OfType(t) == t.type = type
    IN  SumAmounts(SelectSeq(txs, OfType))

\* txInLastDays(transactions, days): parsed date >= local midnight, days ago
txInLastDays(txs, days, t, off) ==
    LET cutoff == (LocalDay(t, off) - days) * 24 - off
        In(x)  == LET d == parseDate(x.date)
                  IN  IF Len(d) > 0 THEN d[1] >= cutoff ELSE FALSE
    IN  SelectSeq(txs, In)

\* txBetweenDaysAgo(transactions, startDaysAgo, endDaysAgo):
\* range [today - startDaysAgo, today - endDaysAgo)
txBetweenDaysAgo(txs, startDaysAgo, endDaysAgo, t, off) ==
    LET end   == (LocalDay(t, off) - endDaysAgo) * 24 - off
        start == (LocalDay(t, off) - startDaysAgo) * 24 - off
        In(x) == LET d == parseDate(x.date)
                 IN  IF Len(d) > 0 THEN d[1] >= start /\ d[1] < end ELSE FALSE
    IN  SelectSeq(txs, In)

\* formatCurrency(amount, currencySymbol) of the rational num/den >= 0:
\* the symbol and the digits of toFixed(2)
formatCurrency(num, den, sym) == [sym |-> sym, digits |-> ToFixed(num, den, 2)]

\* String.prototype.trim on the category strings of the model
Trim(c) ==
    CASE c = "  "      -> ""
      [] c = " Rent "  -> "Rent"
      [] OTHER         -> c

\* (t.category || 'Uncategorized').trim() || 'Uncategorized'
CategoryName(c) ==
    LET named   == IF c = "" THEN "Uncategorized" ELSE c
        trimmed == Trim(named)
    IN  IF trimmed = "" THEN "Uncategorized" ELSE trimmed

\* top[0].toLowerCase().replace(/\s+/g, '_') on the category names of the model
Slug(c) ==
    CASE c = "Rent"            -> "rent"
      [] c = "Software / SaaS" -> "software_/_saas"
      [] c = "Travel"          -> "travel"
      [] c = "Uncategorized"   -> "uncategorized"
      [] OTHER                 -> c

\* a title or message: its template, the numbers and the strings put into it
Text(tpl, nums, strs) == [tpl |-> tpl, nums |-> nums, strs |-> strs]

\* an Insight (the recommendation is a constant of the kind and is left out)
Insight(id, type, category, title, message, priority) ==
    [id |-> id, type |-> type, category |-> category, title |-> title,
     message |-> message, priority |-> priority]

-----------------------------------------------------------------------------
(* generateInsights: the five rules, in the order the code evaluates them *)

\* settings?.currencySymbol || '$'
CurrencySymbol(st) == IF st.currencySymbol = "" THEN "$" ELSE st.currencySymbol

\* today = startOfDay(new Date()); monthKey = today.toISOString().slice(0, 7)
Today(t, off)    == startOfDay(t, off)
MonthKey(t, off) == isoMonth(Today(t, off))

\* mutant of SpendingRisePct: a higher threshold
SpendingRisePct_Raised == 20 + 10

\* the percentage at or above which the spending rule reports a rise
SpendingRisePct == 20
\* mutant of SpendingFallPct: a steeper fall is asked for
SpendingFallPct_Steeper == -15 - 10

\* the percentage at or below which it reports a fall
SpendingFallPct == -15

\* 1) Spending change (last 30 vs previous 30)
SpendingRule(txs, st, t, off) ==
    LET last30      == txInLastDays(txs, 30, t, off)
        prev30      == txBetweenDaysAgo(txs, 60, 30, t, off)
        spendLast30 == sumTx(last30, "expense")
        spendPrev30 == sumTx(prev30, "expense")
        mk          == MonthKey(t, off)
        sym         == CurrencySymbol(st)
        \* changePct = diff * 100 / spendPrev30
        diff        == spendLast30 - spendPrev30
    IN  IF spendPrev30 > 0 /\ spendLast30 > 0
        THEN IF diff * 100 >= SpendingRisePct * spendPrev30
             THEN << Insight(<<"spending_increase", mk[1], mk[2]>>,
                        "warning", "spending",
                        Text("Spending Increased vs Last Month", <<>>, <<>>),
                        Text("spending_up",
                             <<ToFixed(diff * 100, spendPrev30, 1),
                               formatCurrency(spendLast30, 1, sym).digits,
                               formatCurrency(spendPrev30, 1, sym).digits>>,
                             <<sym>>),
                        8) >>
             ELSE IF diff * 100 <= SpendingFallPct * spendPrev30
             THEN << Insight(<<"spending_decrease", mk[1], mk[2]>>,
                        "positive", "spending",
                        Text("Nice Work Reducing Spending", <<>>, <<>>),
                        Text("spending_down",
                             <<ToFixed(Abs(diff) * 100, spendPrev30, 1)>>, <<>>),
                        6) >>
             ELSE <<>>
        ELSE <<>>

\* mutant of GoodSavingsPct: healthy from the low-savings rate on
GoodSavingsPct_Low == 5 + 5

\* the savings rates (percent of income) of the cash-flow rule
LowSavingsPct  == 10
GoodSavingsPct == 20

\* mutant of HasActivity: only income counts as activity
HasActivity_IncomeOnly(income, expenses) == income > 0

\* mutant of HasActivity: both income and expenses are asked for
HasActivity_Both(income, expenses) == income > 0 /\ expenses > 0

\* Only show if there's meaningful activity
HasActivity(income, expenses) == income > 0 \/ expenses > 0

\* mutant of CashflowRule: the three tests are not chained by else
CashflowRule_NoElse(txs, st, t, off) ==
    LET last30   == txInLastDays(txs, 30, t, off)
        income   == sumTx(last30, "income")
        expenses == sumTx(last30, "expense")
        net      == income - expenses
        mk       == MonthKey(t, off)
        Finding(kind, type, priority) ==
            Insight(<<kind, mk[1], mk[2]>>, type, "cashflow",
                    Text(kind, <<>>, <<>>), Text(kind, <<>>, <<>>), priority)
    IN  IF HasActivity(income, expenses)
        THEN (IF net < 0
              THEN <<Finding("cashflow_negative", "alert", 10)>> ELSE <<>>)
             \o (IF income > 0 /\ net * 100 < LowSavingsPct * income
                 THEN <<Finding("cashflow_low_savings", "warning", 8)>>
                 ELSE <<>>)
             \o (IF income > 0 /\ net * 100 >= GoodSavingsPct * income
                 THEN <<Finding("cashflow_good", "positive", 6)>> ELSE <<>>)
        ELSE <<>>

\* 2) Cashflow (last 30 days)
CashflowRule(txs, st, t, off) ==
    LET last30   == txInLastDays(txs, 30, t, off)
        income   == sumTx(last30, "income")
        expenses == sumTx(last30, "expense")
        net      == income - expenses
        mk       == MonthKey(t, off)
        sym      == CurrencySymbol(st)
        \* ratio = net * 100 / income when income > 0, and -100 otherwise
    IN  IF HasActivity(income, expenses)
        THEN IF net < 0
             THEN << Insight(<<"cashflow_negative", mk[1], mk[2]>>,
                        "alert", "cashflow",
                        Text("Negative Cash Flow", <<>>, <<>>),
                        Text("cashflow_negative",
                             <<formatCurrency(Abs(net), 1, sym).digits>>, <<sym>>),
                        10) >>
             ELSE IF income > 0 /\ net * 100 < LowSavingsPct * income
             THEN << Insight(<<"cashflow_low_savings", mk[1], mk[2]>>,
                        "warning", "cashflow",
                        Text("Low Savings Rate", <<>>, <<>>),
                        Text("cashflow_low_savings",
                             <<ToFixed(net * 100, income, 1)>>, <<>>),
                        8) >>
             ELSE IF income > 0 /\ net * 100 >= GoodSavingsPct * income
             THEN << Insight(<<"cashflow_good", mk[1], mk[2]>>,
                        "positive", "cashflow",
                        Text("Healthy Cash Flow", <<>>, <<>>),
                        Text("cashflow_good",
                             <<ToFixed(net * 100, income, 1),
                               formatCurrency(net, 1, sym).digits>>, <<sym>>),
                        6) >>
             ELSE <<>>
        ELSE <<>>

\* the share (percent) of one category at or above which the pattern rule fires
ConcentrationPct == 45

\* mutant of TopCategory: the entries are not sorted, so the category inserted
\* first is taken
TopCategory_Unsorted(exps) ==
    LET first    == CategoryName(exps[1].category)
        Is(x)    == CategoryName(x.category) = first
    IN  [name |-> first, total |-> SumAmounts(SelectSeq(exps, Is))]

\* byCat and its sort: the category names of the expenses with their totals;
\* the entry sorted first has the largest total and, among equal totals, was
\* inserted into the Map first (Array.prototype.sort is stable)
TopCategory(exps) ==
    LET CatAt(i)    == CategoryName(exps[i].category)
        Cats        == {CatAt(i) : i \in 1..Len(exps)}
        InCat(c)    == LET Is(x) == CategoryName(x.category) = c
                       IN  SelectSeq(exps, Is)
        Total(c)    == SumAmounts(InCat(c))
        FirstIdx(c) == CHOOSE i \in 1..Len(exps) :
                          /\ CatAt(i) = c
                          /\ \A j \in 1..(i - 1) : CatAt(j) # c
        top         == CHOOSE c \in Cats :
                          \A o \in Cats :
                             \/ Total(c) > Total(o)
                             \/ Total(c) = Total(o) /\ FirstIdx(c) <= FirstIdx(o)
    IN  [name |-> top, total |-> Total(top)]

\* 3) Pattern: top expense category concentration (last 30 days)
PatternRule(txs, st, t, off) ==
    LET IsExpense(x) == x.type = "expense"
        last30 == SelectSeq(txInLastDays(txs, 30, t, off), IsExpense)
        total  == SumAmounts(last30)
        mk     == MonthKey(t, off)
    IN  IF total > 0
        THEN LET top == TopCategory(last30)
             IN  \* pct = top.total * 100 / total
                 IF top.total * 100 >= ConcentrationPct * total
                 THEN << Insight(<<"pattern_top_category", mk[1], mk[2],
                                   Slug(top.name)>>,
                            "info", "patterns",
                            Text("Top Spend Category", <<>>, <<top.name>>),
                            Text("pattern_top_category",
                                 <<ToFixed(top.total * 100, total, 1)>>,
                                 <<top.name>>),
                            5) >>
                 ELSE <<>>
        ELSE <<>>

\* the number of unpaid invoices from which "many unpaid" is reported
ManyUnpaidMin == 5

\* mutant of IsOverdue: an invoice whose due day is today counts as well
IsOverdue_Inclusive(inv, t, off) ==
    IF inv.status # "unpaid" THEN FALSE
    ELSE LET due == parseDate(inv.due)
         IN  IF Len(due) > 0 THEN startOfDay(due[1], off) <= startOfDay(t, off)
                             ELSE FALSE

\* the filter of rule 4: unpaid, the due date parses, and the local day the
\* parsed due date falls in starts before today
IsOverdue(inv, t, off) ==
    IF inv.status # "unpaid" THEN FALSE
    ELSE LET due == parseDate(inv.due)
         IN  IF Len(due) > 0 THEN startOfDay(due[1], off) < Today(t, off)
                             ELSE FALSE

\* 4) Overdue invoices
InvoiceRule(invs, st, t, off) ==
    LET Over(inv) == IsOverdue(inv, t, off)
        overdue   == SelectSeq(invs, Over)
        mk        == MonthKey(t, off)
        sym       == CurrencySymbol(st)
    IN  IF Len(overdue) > 0
        THEN LET dues     == {parseDate(overdue[i].due)[1] : i \in 1..Len(overdue)}
                 \* the first of the parsed due dates sorted ascending
                 earliest == CHOOSE d \in dues : \A e \in dues : d <= e
                 totalDue == SumAmounts(overdue)
             IN  << Insight(<<"invoice_overdue", isoDate(earliest)>>,
                        "alert", "invoices",
                        Text("Overdue Invoices", <<Len(overdue)>>, <<>>),
                        Text("invoice_overdue",
                             <<Len(overdue),
                               formatCurrency(totalDue, 1, sym).digits>>, <<sym>>),
                        9) >>
        ELSE LET Unpaid(inv) == inv.status = "unpaid"
                 unpaid      == SelectSeq(invs, Unpaid)
             IN  IF Len(unpaid) >= ManyUnpaidMin
                 THEN << Insight(<<"invoice_unpaid_many", mk[1], mk[2]>>,
                            "warning", "invoices",
                            Text("Many Unpaid Invoices", <<>>, <<>>),
                            Text("invoice_unpaid_many", <<Len(unpaid)>>, <<>>),
                            7) >>
                 ELSE <<>>

\* the funded percentages of the tax rule and the first month (0 = January)
\* in which it reports underfunding
UnderfundedPct == 60
OnTrackPct     == 80

\* mutant of TaxFirstMonth: the cutoff one month early (February)
TaxFirstMonth_February == 2 - 1

\* mutant of TaxFirstMonth: the month index taken as 1-based
TaxFirstMonth_OneBased == 2 + 1

TaxFirstMonth == 2

\* 5) Tax funding reminder (simple YTD estimate)
TaxRule(txs, tps, st, t, off) ==
    LET today      == Today(t, off)
        year       == getFullYear(today, off)
        YtdIncome(x) == x.type = "income" /\ startsWithYear(x.date, year)
        Ytd(x)       == startsWithYear(x.date, year)
        ytdIncome  == SumAmounts(SelectSeq(txs, YtdIncome))
        ytdTaxPaid == SumAmounts(SelectSeq(tps, Ytd))
        totalRate  == NumberOr0(st.taxRate) + NumberOr0(st.stateTaxRate)
        \* estTax = ytdIncome * totalRate / 100
        estNum     == ytdIncome * totalRate
        sym        == CurrencySymbol(st)
    IN  IF ytdIncome > 0 /\ totalRate > 0
        THEN \* fundedPct = ytdTaxPaid / estTax * 100 = ytdTaxPaid * 10000 / estNum
             LET fundedNum == IF estNum > 0 THEN ytdTaxPaid * 10000 ELSE 0
                 fundedDen == IF estNum > 0 THEN estNum ELSE 1
             IN  IF /\ fundedNum < UnderfundedPct * fundedDen
                    /\ getMonth(today, off) >= TaxFirstMonth
                 THEN << Insight(<<"tax_underfunded", year,
                                   getMonth(today, off) + 1>>,
                            "warning", "tax",
                            Text("Tax Payments May Be Behind", <<>>, <<>>),
                            Text("tax_underfunded",
                                 <<formatCurrency(estNum, 100, sym).digits,
                                   formatCurrency(ytdTaxPaid, 1, sym).digits,
                                   ToFixed(fundedNum, fundedDen, 0)>>, <<sym>>),
                            7) >>
                 ELSE IF fundedNum >= OnTrackPct * fundedDen /\ ytdTaxPaid > 0
                 THEN << Insight(<<"tax_ontrack", year>>,
                            "positive", "tax",
                            Text("Tax Funding Looks On Track", <<>>, <<>>),
                            Text("tax_ontrack",
                                 <<ToFixed(fundedNum, fundedDen, 0)>>, <<>>),
                            5) >>
                 ELSE <<>>
        ELSE <<>>

\* the priorities an Insight can carry (1..10)
MaxPriority == 10

RECURSIVE SortFrom(_, _)
\* insights.sort((a, b) => b.priority - a.priority): a stable sort, so the
\* insights of one priority keep the order in which they were pushed
SortFrom(ins, p) ==
    IF p < 1 THEN <<>>
    ELSE LET Has(i) == i.priority = p
         IN  SelectSeq(ins, Has) \o SortFrom(ins, p - 1)

\* mutant of SortByPriority: the list is returned as pushed
SortByPriority_Unsorted(ins) == ins

SortByPriority(ins) == SortFrom(ins, MaxPriority)

\* the rules' findings in the order the code pushes them
RuleOutputs(txs, invs, tps, st, t, off) ==
    SpendingRule(txs, st, t, off) \o CashflowRule(txs, st, t, off)
        \o PatternRule(txs, st, t, off) \o InvoiceRule(invs, st, t, off)
        \o TaxRule(txs, tps, st, t, off)

\* mutant of generateThrows: date.startsWith without the optional chaining
\* also throws on a missing date
generateThrows_NoOptionalChain(txs, invs, tps, st, t, off) ==
    /\ Len(txs) > 0
    /\ \/ \E i \in 1..Len(txs) :
             txs[i].type = "income" /\ txs[i].date.k \in {"num", "none"}
       \/ \E i \in 1..Len(tps) : tps[i].date.k \in {"num", "none"}

\* whether the call raises a TypeError.  On the record shapes of the model the
\* one property access that can is date?.startsWith(...) of rule 5, on a date
\* that is neither missing nor a string; the filter of ytdIncome reads it for
\* income transactions only (&& short-circuits), that of ytdTaxPaid for all
generateThrows(txs, invs, tps, st, t, off) ==
    /\ Len(txs) > 0
    /\ \/ \E i \in 1..Len(txs) : txs[i].type = "income" /\ txs[i].date.k = "num"
       \/ \E i \in 1..Len(tps) : tps[i].date.k = "num"

\* mutant of generateInsights: the guard on the transaction list is missing
generateInsights_NoGuard(txs, invs, tps, st, t, off) ==
    SortByPriority(RuleOutputs(txs, invs, tps, st, t, off))

\* generateInsights(args), called at instant t in a host of offset off, when
\* it returns
generateInsights(txs, invs, tps, st, t, off) ==
    \* Guard: if no data, return empty
    IF Len(txs) = 0 THEN <<>>
    ELSE SortByPriority(RuleOutputs(txs, invs, tps, st, t, off))

-----------------------------------------------------------------------------
(* The dismissal store: one localStorage slot holding a JSON text *)

\* A JS value met in an array of ids: a string (an id) or something else
Str(id) == [t |-> "string", v |-> id]
NotAString == [t |-> "number", v |-> <<"7">>]

\* What the slot can hold: nothing (getItem gives null), the empty string,
\* a text that is not JSON, the JSON text of a value that is no array, or the
\* JSON text of an array of values
NoItem       == [kind |-> "null",    items |-> <<>>]
EmptyText    == [kind |-> "empty",   items |-> <<>>]
InvalidJson  == [kind |-> "invalid", items |-> <<>>]
JsonObject   == [kind |-> "object",  items |-> <<>>]
JsonArray(a) == [kind |-> "array",   items |-> a]

\* JSON.stringify of an array of values
JsonStringify(a) == JsonArray(a)

\* mutant of Uniq: the array is copied without going through a Set
Uniq_KeepsAll(a) == a

RECURSIVE Uniq(_)
\* Array.from(new Set(a)): each value once, at the place of its first occurrence
Uniq(a) ==
    IF Len(a) = 0 THEN <<>>
    ELSE LET front == Uniq(SubSeq(a, 1, Len(a) - 1))
             last  == a[Len(a)]
         IN  IF last \in Range(front) THEN front ELSE Append(front, last)

IsString(x) == x.t = "string"

\* mutant of getDismissedInsightIds: the parsed array is returned unfiltered
getDismissedInsightIds_NoFilter(slot, readable) ==
    IF readable /\ slot.kind = "array" THEN slot.items ELSE <<>>

\* getDismissedInsightIds(): readable says whether localStorage can be read
getDismissedInsightIds(slot, readable) ==
    IF ~readable THEN <<>>                              \* catch
    ELSE IF slot.kind \in {"null", "empty"} THEN <<>>   \* if (!raw) return []
    ELSE IF slot.kind = "invalid" THEN <<>>             \* JSON.parse throws
    ELSE IF slot.kind = "array" THEN SelectSeq(slot.items, IsString)
    ELSE <<>>                                           \* not an array

\* mutant of setDismissedInsightIds: the slot is removed before setItem, so
\* a failing setItem leaves it empty
setDismissedInsightIds_RemovesFirst(slot, ids, writable) ==
    IF writable THEN JsonStringify(Uniq(SelectSeq(ids, IsString))) ELSE NoItem

\* mutant of setDismissedInsightIds: the typeof test is negated
setDismissedInsightIds_NotStrings(slot, ids, writable) ==
    LET NotString(x) == x.t # "string"
    IN  IF writable THEN JsonStringify(Uniq(SelectSeq(ids, NotString))) ELSE slot

\* mutant of setDismissedInsightIds: the filtered ids are stored as given
setDismissedInsightIds_NoSet(slot, ids, writable) ==
    IF writable THEN JsonStringify(SelectSeq(ids, IsString)) ELSE slot

\* setDismissedInsightIds(ids): the slot afterwards; writable says whether
\* setItem goes through
setDismissedInsightIds(slot, ids, writable) ==
    LET uniq == Uniq(SelectSeq(ids, IsString))
    IN  IF writable THEN JsonStringify(uniq) ELSE slot  \* catch: ignore

\* dismissInsightId(id): add(id), the union of the stored set and {id}
dismissInsightId(slot, id, readable, writable) ==
    setDismissedInsightIds(slot,
        Append(getDismissedInsightIds(slot, readable), Str(id)), writable)

\* mutant of getInsightCount: the insight, not its id, is looked up
getInsightCount_HasInsight(txs, invs, tps, st, t, off, slot, readable) ==
    LET all       == generateInsights(txs, invs, tps, st, t, off)
        dismissed == Range(getDismissedInsightIds(slot, readable))
        Active(i) == Str(<<"[object Object]">>) \notin dismissed
    IN  Len(SelectSeq(all, Active))

\* mutant of getInsightCount: without the try / catch nothing is returned
\* when the generator throws
getInsightCount_NoCatch(txs, invs, tps, st, t, off, slot, readable) ==
    LET all       == generateInsights(txs, invs, tps, st, t, off)
        dismissed == Range(getDismissedInsightIds(slot, readable))
        Active(i) == Str(i.id) \notin dismissed
    IN  IF generateThrows(txs, invs, tps, st, t, off) THEN -1
        ELSE Len(SelectSeq(all, Active))

\* getInsightCount(args)
getInsightCount(txs, invs, tps, st, t, off, slot, readable) ==
    LET all       == generateInsights(txs, invs, tps, st, t, off)
        dismissed == Range(getDismissedInsightIds(slot, readable))
        Active(i) == Str(i.id) \notin dismissed
    IN  IF generateThrows(txs, invs, tps, st, t, off) THEN 0      \* catch
        ELSE Len(SelectSeq(all, Active))

\* clearDismissedInsights(): clear(), after which no id is stored
clearDismissedInsights(slot, writable) == IF writable THEN NoItem ELSE slot

-----------------------------------------------------------------------------
(* What a call of generateInsights leaves in its arguments.  The code assigns *)
(* to no field of a record or of settings; the operations that write to      *)
(* their receiver are the three Array.prototype.sort calls (push is used on  *)
(* the local list only).  An array is one of the arguments or a new array,   *)
(* the result of filter, map, Array.from or a literal.                       *)

NewArray(items)       == [of |-> "new", items |-> items]
ArgArray(name, items) == [of |-> name, items |-> items]

\* an element of a sorted array with the number its comparator orders it by
Keyed(key, val) == [key |-> key, val |-> val]

Vals(items) == [i \in 1..Len(items) |-> items[i].val]

\* Array.prototype.sort with a numeric comparator: ascending keys, stable.
\* The element at place i is the one with i - 1 elements before it: those of
\* a smaller key and those of the same key that came earlier.
SortByKey(items) ==
    LET n == Len(items)
        Before(j) == {k \in 1..n : \/ items[k].key < items[j].key
                                   \/ items[k].key = items[j].key /\ k < j}
    IN  [i \in 1..n |->
            items[CHOOSE j \in 1..n : Cardinality(Before(j)) = i - 1]]

\* a call receiver.sort(...): the array sorted and what it holds afterwards
SortCall(receiver, sorted) == [of |-> receiver.of, sorted |-> sorted]

\* Array.from(byCat.entries()), sorted by (a, b) => b[1] - a[1]
ByCatEntries(txs, t, off) ==
    LET IsExpense(x) == x.type = "expense"
        last30   == SelectSeq(txInLastDays(txs, 30, t, off), IsExpense)
        cats     == Uniq([i \in 1..Len(last30) |->
                              CategoryName(last30[i].category)])
        Total(c) == LET Is(x) == CategoryName(x.category) = c
                    IN  SumAmounts(SelectSeq(last30, Is))
    IN  NewArray([i \in 1..Len(cats) |->
                     Keyed(-Total(cats[i]),
                           [name |-> cats[i], total |-> Total(cats[i])])])

\* mutant of OverdueDueDates: invoices itself is sorted by due date
OverdueDueDates_OfInvoices(invs, t, off) ==
    LET Key(inv) == LET due == parseDate(inv.due)
                    IN  IF Len(due) > 0 THEN due[1] ELSE 0
    IN  ArgArray("invoices", [i \in 1..Len(invs) |-> Keyed(Key(invs[i]), invs[i])])

\* overdue.map(inv => parseDate(inv.due)).filter(d => !!d), sorted by
\* (a, b) => a.getTime() - b.getTime()
OverdueDueDates(invs, t, off) ==
    LET Over(inv) == IsOverdue(inv, t, off)
        overdue   == SelectSeq(invs, Over)
    IN  NewArray([i \in 1..Len(overdue) |->
                     Keyed(parseDate(overdue[i].due)[1],
                           parseDate(overdue[i].due)[1])])

\* const insights: Insight[] = [], the array the findings are pushed to; the
\* function sorts it in place and returns it, so it holds what is returned
PushedInsights(returned) == NewArray(returned)

\* the sort calls one call of generateInsights makes, in order (lines 190,
\* 221 and 292)
SortCalls(txs, invs, t, off, returned) ==
    LET IsExpense(x) == x.type = "expense"
        Over(inv)    == IsOverdue(inv, t, off)
        total == SumAmounts(SelectSeq(txInLastDays(txs, 30, t, off), IsExpense))
    IN  IF Len(txs) = 0 THEN <<>>
        ELSE (IF total > 0
              THEN <<SortCall(ByCatEntries(txs, t, off),
                              Vals(SortByKey(ByCatEntries(txs, t, off).items)))>>
              ELSE <<>>)
             \o (IF Len(SelectSeq(invs, Over)) > 0
                 THEN <<SortCall(OverdueDueDates(invs, t, off),
                           Vals(SortByKey(OverdueDueDates(invs, t, off).items)))>>
                 ELSE <<>>)
             \o <<SortCall(PushedInsights(returned), returned)>>

\* what the argument array `name`, holding `held`, holds after the sort
\* calls: what the last sort that had it as its receiver left in it
HeldAfter(name, held, sorts) ==
    LET hits == {i \in 1..Len(sorts) : sorts[i].of = name}
    IN  IF hits = {} THEN held
        ELSE LET last == CHOOSE i \in hits : \A j \in hits : j <= i
             IN  sorts[last].sorted

-----------------------------------------------------------------------------
(* Records and the bounded inputs of the specifications *)

Transaction(type, amount, category, date) ==
    [type |-> type, amount |-> amount, category |-> category, date |-> date]

Invoice(status, amount, due) ==
    [status |-> status, amount |-> amount, due |-> due]

TaxPayment(amount, date) == [amount |-> amount, date |-> date]

Settings(sym, taxRate, stateTaxRate) ==
    [currencySymbol |-> sym, taxRate |-> taxRate, stateTaxRate |-> stateTaxRate]

\* the sequences over S of length at most n
BoundedSeq(S, n) == UNION {[1..k -> S] : k \in 0..n}

\* the longest lists of records and of ids the specifications draw
MaxTx    == 3
MaxTaxTx == 2
MaxInv   == 3
MaxTp    == 2
MaxIds   == 2
\* the most ids the session dismisses one by one
MaxStored == 3
\* the days the session's clock advances
MaxTicks == 1

\* the day the specifications are evaluated on, 2026-03-01, and noon UTC of it
D0 == DaysFromCivil(2026, 3, 1)
T0 == D0 * 24 + 12

\* hosts west of UTC, at UTC and east of UTC
Zones == {-5, 0, 2}

DemoSettings == Settings("$", Amt(15), Amt(5))

\* a record of an operation performed: ok says whether localStorage worked
\* during it (it does not when every access throws or the quota is exceeded)
Op(op, ok, arg) == [op |-> op, ok |-> ok, arg |-> arg]

InitWith(txs, invs, tps, sts, nows, zones, slots) ==
    /\ transactions \in txs
    /\ invoices \in invs
    /\ taxPayments \in tps
    /\ settings \in sts
    /\ now \in nows
    /\ tz \in zones
    /\ storage \in slots
    /\ insights = <<>>
    /\ count = 0
    /\ dismissedState = <<>>
    /\ added = {}
    /\ selectedCategory = "all"
    /\ selectedSeverity = "all"
    /\ sortBy = "priority"
    /\ userDismissed = {}
    /\ activePage = "Dashboard"
    /\ loadingInsight = FALSE
    /\ insight = 0
    /\ pending = {}
    /\ started = 0
    /\ drawerMode = "null"
    /\ activeItem = <<>>
    /\ lastOp = Op("init", TRUE, <<>>)

-----------------------------------------------------------------------------
(* Operations *)

\* a caller (the dashboard's useMemo) calls generateInsights(args) and the
\* call returns
Generate ==
    /\ ~generateThrows(transactions, invoices, taxPayments, settings, now, tz)
    /\ insights' = generateInsights(transactions, invoices, taxPayments,
                                    settings, now, tz)
    /\ lastOp' = Op("generate", TRUE, <<>>)
    /\ LET sorts == SortCalls(transactions, invoices, now, tz, insights')
       IN  /\ transactions' = HeldAfter("transactions", transactions, sorts)
           /\ invoices' = HeldAfter("invoices", invoices, sorts)
           /\ taxPayments' = HeldAfter("taxPayments", taxPayments, sorts)
    /\ UNCHANGED <<dashVars, appVars>>
    /\ UNCHANGED <<settings, envVars, count, storage, dismissedState, added>>

\* a caller (the badge) calls getInsightCount(args)
GetCount(ok) ==
    /\ count' = getInsightCount(transactions, invoices, taxPayments, settings,
                                now, tz, storage, ok)
    /\ lastOp' = Op("count", ok, <<>>)
    /\ UNCHANGED <<dashVars, appVars>>
    /\ UNCHANGED <<argVars, envVars, insights, storage, dismissedState, added>>

\* a caller replaces the stored ids: setDismissedInsightIds(ids)
SetDismissed(ids, ok) ==
    /\ storage' = setDismissedInsightIds(storage, ids, ok)
    /\ added' = IF ok THEN {x.v : x \in {y \in Range(ids) : IsString(y)}}
                      ELSE added
    /\ lastOp' = Op("set", ok, ids)
    /\ UNCHANGED <<dashVars, appVars>>
    /\ UNCHANGED <<argVars, envVars, insights, count, dismissedState>>

\* a caller adds the id of a listed insight to the store: dismissInsightId(id)
Dismiss(id, ok) ==
    /\ Len(getDismissedInsightIds(storage, TRUE)) < MaxStored
    /\ storage' = dismissInsightId(storage, id, ok, ok)
    /\ added' = IF ok THEN added \cup {id} ELSE added
    /\ lastOp' = Op("dismiss", ok, <<Str(id)>>)
    /\ UNCHANGED <<dashVars, appVars>>
    /\ UNCHANGED <<argVars, envVars, insights, count, dismissedState>>

\* a caller calls generateInsights(args) and the call throws: nothing is
\* returned, and no sort call is reached before rule 5 that has an argument
\* as its receiver
GenerateThrows ==
    /\ generateThrows(transactions, invoices, taxPayments, settings, now, tz)
    /\ lastOp' = Op("throw", TRUE, <<>>)
    /\ UNCHANGED <<dashVars, appVars>>
    /\ UNCHANGED <<argVars, envVars, insights, count, storage, dismissedState,
                   added>>

\* the dashboard mounts: setDismissed(new Set(getDismissedInsightIds()))
Load(ok) ==
    /\ dismissedState' = getDismissedInsightIds(storage, ok)
    /\ lastOp' = Op("load", ok, <<>>)
    /\ UNCHANGED <<dashVars, appVars>>
    /\ UNCHANGED <<argVars, envVars, insights, count, storage, added>>

\* a caller resets the store: clearDismissedInsights()
Clear(ok) ==
    /\ storage' = clearDismissedInsights(storage, ok)
    /\ added' = IF ok THEN {} ELSE added
    /\ lastOp' = Op("clear", ok, <<>>)
    /\ UNCHANGED <<dashVars, appVars>>
    /\ UNCHANGED <<argVars, envVars, insights, count, dismissedState>>

\* a day passes
Tick ==
    /\ now < T0 + MaxTicks * 24
    /\ now' = now + 24
    /\ lastOp' = Op("tick", TRUE, <<>>)
    /\ UNCHANGED <<dashVars, appVars>>
    /\ UNCHANGED <<argVars, tz, insights, count, storage, dismissedState, added>>

-----------------------------------------------------------------------------
(* The session: fixed records, the store and the clock change *)

RentToday   == Transaction("expense", Amt(10), "Rent", Ymd(D0))
SalesToday  == Transaction("income", Amt(10), "Sales", Ymd(D0))
TravelToday == Transaction("expense", Amt(8), "Travel", Ymd(D0))
OldInvoice  == Invoice("unpaid", Amt(100), Ymd(DaysFromCivil(2020, 1, 1)))

\* the records the session runs on: <<transactions, invoices>>
Scenarios == {<< <<>>, <<OldInvoice>> >>,
              << <<RentToday>>, <<OldInvoice>> >>,
              << <<SalesToday, TravelToday>>, <<>> >>}

\* ids a caller may pass to setDismissedInsightIds
SetPool == {Str(<<"cashflow_negative", 2026, 3>>),
            Str(<<"invoice_overdue", DaysFromCivil(2020, 1, 1)>>)}

\* what the slot may hold when the session starts
SessionSlots == {NoItem, InvalidJson,
                 JsonArray(<<Str(<<"tax_ontrack", 2025>>), NotAString>>)}

Init ==
    \E sc \in Scenarios :
        InitWith({sc[1]}, {sc[2]}, {<<>>}, {DemoSettings}, {T0}, {0, 2},
                 SessionSlots)

IdsOf(ins) == {ins[i].id : i \in 1..Len(ins)}

Next ==
    \/ Generate
    \/ \E ok \in BOOLEAN : GetCount(ok)
    \/ \E ids \in BoundedSeq(SetPool, MaxIds), ok \in BOOLEAN :
          SetDismissed(ids, ok)
    \/ \E id \in IdsOf(insights), ok \in BOOLEAN : Dismiss(id, ok)
    \/ Tick

Spec == Init /\ [][Next]_vars

-----------------------------------------------------------------------------
(* The generator on bounded inputs: Init draws the arguments, the clock and  *)
(* the timezone, and the one step is a call of generateInsights              *)

Income(n, day)       == Transaction("income", Amt(n), "Sales", Ymd(day))
Expense(n, cat, day) == Transaction("expense", Amt(n), cat, Ymd(day))

\* income and expenses inside, at the edge of, before and after the trailing
\* 30 days
CashPool ==
    {Income(10, D0), Income(8, D0), Income(10, D0 - 45), Income(10, D0 + 1),
     Expense(9, "Rent", D0), Expense(9, "Rent", D0 - 30)}
    \cup {Expense(n, "Rent", d) : n \in {8, 10}, d \in {D0 - 45, D0, D0 + 1}}

InitCash ==
    InitWith(BoundedSeq(CashPool, MaxTx), {<<>>}, {<<>>}, {DemoSettings},
             {T0}, Zones, {NoItem})

SpecCash == InitCash /\ [][Generate]_vars

\* expenses in the trailing 30 days and in the 30 days before them
SpendPool ==
    {Expense(n, "Rent", D0 - 45) : n \in {8, 9, 10}}
    \cup {Expense(n, "Rent", D0) : n \in {8, 9, 10, 12}}
    \cup {Expense(10, "Travel", D0), Expense(10, "", D0),
          Expense(10, "Rent", D0 - 60), Expense(10, "Rent", D0 - 30),
          Expense(10, "Rent", D0 - 61)}

InitSpend ==
    InitWith(BoundedSeq(SpendPool, MaxTx), {<<>>}, {<<>>}, {DemoSettings},
             {T0}, Zones, {NoItem})

SpecSpend == InitSpend /\ [][Generate]_vars

\* invoices due long ago, two days ago, yesterday, today and tomorrow
InvoicePool ==
    {Invoice("unpaid", Amt(100), Ymd(d)) :
        d \in {DaysFromCivil(2020, 1, 1), D0 - 2, D0 - 1, D0, D0 + 1}}
    \cup {Invoice("unpaid", Amt(100), BadDate(2026)),
          Invoice("paid", Amt(100), Ymd(D0 - 2)),
          Invoice("void", NoAmount, Ymd(D0 - 2))}

InitInv ==
    InitWith({<<>>, <<RentToday>>}, BoundedSeq(InvoicePool, MaxInv), {<<>>},
             {DemoSettings}, {T0}, Zones, {NoItem})

SpecInv == InitInv /\ [][Generate]_vars

\* income of this year and of last year, with and without a date that parses
TaxTxPool ==
    {Income(10, D0), Income(1000, D0), Income(10, D0 - 60),
     Transaction("income", Amt(10), "Sales", BadDate(2026)),
     Transaction("income", Amt(10), "Sales", NoDate),
     Expense(10, "Rent", D0)}

TaxPaymentPool ==
    {TaxPayment(Amt(1), Ymd(D0)), TaxPayment(Amt(2), Ymd(D0)),
     TaxPayment(Amt(2), Ymd(D0 - 60))}

TaxSettings == {DemoSettings, Settings("$", Amt(0), NoAmount)}

\* noon UTC of 2026-02-15
TFeb == DaysFromCivil(2026, 2, 15) * 24 + 12

InitTax ==
    InitWith(BoundedSeq(TaxTxPool, MaxTaxTx), {<<>>},
             BoundedSeq(TaxPaymentPool, MaxTp), TaxSettings, {T0, TFeb},
             Zones, {NoItem})

SpecTax == InitTax /\ [][Generate]_vars

\* records that make every rule fire
MixPool ==
    {Income(10, D0), Expense(10, "Rent", D0), Expense(8, "Travel", D0),
     Expense(8, "Rent", D0 - 45), Expense(10, "Rent", D0 - 45)}

FiveUnpaid == [i \in 1..5 |-> Invoice("unpaid", Amt(100), Ymd(D0 + 1))]

InitMix ==
    InitWith(BoundedSeq(MixPool, MaxTx), {<<>>, <<OldInvoice>>, FiveUnpaid},
             {<<>>, <<TaxPayment(Amt(2), Ymd(D0))>>}, {DemoSettings}, {T0},
             Zones, {NoItem})

SpecMix == InitMix /\ [][Generate]_vars

-----------------------------------------------------------------------------
(* Claims about the cash-flow rule, under SpecCash *)

Generated == lastOp.op = "generate"

\* the finding of a given id prefix in the returned list
Found(prefix) == {i \in Range(insights) : i.id[1] = prefix}

\* income minus expenses over all the transactions
TotalNet == sumTx(transactions, "income") - sumTx(transactions, "expense")

\* income minus expenses over the transactions of the trailing window: those
\* whose date parses and is not before local midnight 30 days before today
WindowNet ==
    LET last30 == txInLastDays(transactions, 30, now, tz)
    IN  sumTx(last30, "income") - sumTx(last30, "expense")

IsNegativeCashflowAlert(i) ==
    /\ i.id[1] = "cashflow_negative"
    /\ i.type = "alert"
    /\ i.category = "cashflow"

\* C1 as stated: whenever income minus expenses over the whole transaction
\* list is negative, the returned list holds the negative-cash-flow alert.
C1_TotalNetNegativeIsAlert ==
    Generated /\ TotalNet < 0 =>
        \E i \in Range(insights) : IsNegativeCashflowAlert(i)

\* C1 amended: whenever income minus expenses over the transactions of the
\* trailing 30-day window is negative, the returned list holds the
\* negative-cash-flow alert.
C1_WindowNetNegativeIsAlert ==
    Generated /\ WindowNet < 0 =>
        \E i \in Range(insights) : IsNegativeCashflowAlert(i)

\* an expense-only window, and a list whose total net is not negative
C1_Witness ==
    /\ Generated
    /\ WindowNet < 0
    /\ TotalNet >= 0
    /\ \E i \in Range(insights) : IsNegativeCashflowAlert(i)

-----------------------------------------------------------------------------
(* Claims about the spending rule, under SpecSpend *)

\* the expense totals of the trailing 30 days and of the 30 days before them
CurrSpend == sumTx(txInLastDays(transactions, 30, now, tz), "expense")
PrevSpend == sumTx(txBetweenDaysAgo(transactions, 60, 30, now, tz), "expense")

\* tenths is (curr - prev) / prev * 100 rounded to one decimal:
\* |tenths / 10 - (curr - prev) * 100 / prev| <= 0.05
IsRoundedChange(tenths, curr, prev) ==
    2 * Abs(tenths * prev - (curr - prev) * 1000) <= prev

\* C4: when the trailing-30-day expense total exceeds the preceding-30-day
\* total (> 0) by at least 25%, the list holds a 'spending increased' finding
\* whose percentage is (curr - prev) / prev * 100 up to rounding.
C4_RiseOf25PctIsReported ==
    Generated /\ PrevSpend > 0 /\ (CurrSpend - PrevSpend) * 100 >= 25 * PrevSpend
    => \E i \in Range(insights) :
          /\ i.id[1] = "spending_increase"
          /\ i.title.tpl = "Spending Increased vs Last Month"
          /\ IsRoundedChange(i.message.nums[1], CurrSpend, PrevSpend)

\* a rise of exactly 25%, and one whose percentage has to be rounded
C4_Witness ==
    /\ Generated
    /\ PrevSpend > 0
    /\ \/ (CurrSpend - PrevSpend) * 100 = 25 * PrevSpend
       \/ /\ (CurrSpend - PrevSpend) * 100 > 25 * PrevSpend
          /\ ((CurrSpend - PrevSpend) * 1000) % PrevSpend # 0
    /\ Found("spending_increase") # {}

-----------------------------------------------------------------------------
(* Claims about the invoice rule, under SpecInv *)

Today0 == LocalDay(now, tz)

\* the invoices of the list that satisfy P, counted with their repetitions
CountInvoices(P(_)) == Cardinality({k \in 1..Len(invoices) : P(invoices[k])})

\* overdue as C2 states it: unpaid and due strictly before (today - 1 day)
DueBeforeYesterday(inv) ==
    inv.status = "unpaid" /\ inv.due.k = "ymd" /\ inv.due.d < Today0 - 1

\* overdue as the code has it: unpaid, and the local day on which the UTC
\* midnight of the due date falls is before today; that is due < today in a
\* host at or east of UTC and due <= today in a host west of UTC
DueLocallyBeforeToday(inv) ==
    /\ inv.status = "unpaid"
    /\ inv.due.k = "ymd"
    /\ IF tz < 0 THEN inv.due.d <= Today0 ELSE inv.due.d < Today0

\* the overdue findings all report n, in the title and in the message
OverdueCountIs(n) ==
    \A i \in Found("invoice_overdue") :
        i.title.nums[1] = n /\ i.message.nums[1] = n

IsLongOverdue(inv) ==
    inv.status = "unpaid" /\ inv.due = Ymd(DaysFromCivil(2020, 1, 1))

\* C3: whenever the invoice list holds an unpaid invoice due long ago
\* (2020-01-01), the list holds an overdue finding with the matching count,
\* for any transaction list, the empty one included.
C3_OverdueWhateverTheTransactions ==
    Generated /\ (\E k \in 1..Len(invoices) : IsLongOverdue(invoices[k]))
    => /\ Found("invoice_overdue") # {}
       /\ OverdueCountIs(CountInvoices(DueLocallyBeforeToday))

-----------------------------------------------------------------------------
(* Claims about the tax rule, under SpecTax *)

ThisYear == YearOfDay(Today0)

\* year-to-date income and tax payments: the records whose date string starts
\* with the current year
YtdIncome ==
    LET P(x) == x.type = "income" /\ startsWithYear(x.date, ThisYear)
    IN  SumAmounts(SelectSeq(transactions, P))
YtdTaxPaid ==
    LET P(x) == startsWithYear(x.date, ThisYear)
    IN  SumAmounts(SelectSeq(taxPayments, P))
CombinedRate == NumberOr0(settings.taxRate) + NumberOr0(settings.stateTaxRate)

\* C8: with year-to-date income > 0, a combined rate > 0, the month March or
\* later and payments below 60% of the estimated tax (income * rate / 100),
\* the list holds the underfunded-tax warning, whose message shows the
\* estimated tax and the paid amount to two decimals.
C8_UnderfundedTaxIsWarned ==
    /\ Generated
    /\ YtdIncome > 0
    /\ CombinedRate > 0
    /\ MonthOfDay(Today0) >= 3
    /\ YtdTaxPaid * 100 * 100 < 60 * YtdIncome * CombinedRate
    => \E i \in Range(insights) :
          /\ i.id[1] = "tax_underfunded"
          /\ i.type = "warning"
          /\ i.category = "tax"
          \* the digits of estimated tax: income * rate / 100, times 100
          /\ i.message.nums[1] = YtdIncome * CombinedRate
          /\ i.message.nums[2] = YtdTaxPaid * 100

\* the example: income 1000, rates 15 and 5, no payment: 200.00 and 0.00
C8_Witness ==
    /\ Generated
    /\ transactions = <<Income(1000, D0)>>
    /\ taxPayments = <<>>
    /\ settings = DemoSettings
    /\ MonthOfDay(Today0) = 3
    /\ \E i \in Found("tax_underfunded") :
          i.message.nums[1] = 20000 /\ i.message.nums[2] = 0

-----------------------------------------------------------------------------
(* Claims about the order and the ids of the findings, under SpecMix *)

\* the place of a finding's rule in the spec's numbering of the rules
SpecRank(cat) ==
    CASE cat = "cashflow" -> 1 [] cat = "spending" -> 2 [] cat = "patterns" -> 3
      [] cat = "invoices" -> 4 [] cat = "tax" -> 5

\* the place of a finding's rule in the order the code evaluates the rules
CodeRank(cat) ==
    CASE cat = "spending" -> 1 [] cat = "cashflow" -> 2 [] cat = "patterns" -> 3
      [] cat = "invoices" -> 4 [] cat = "tax" -> 5

\* priorities do not increase along the list and equal priorities follow Rank
OrderedBy(Rank(_)) ==
    \A a, b \in 1..Len(insights) :
        a < b =>
            \/ insights[a].priority > insights[b].priority
            \/ /\ insights[a].priority = insights[b].priority
               /\ Rank(insights[a].category) < Rank(insights[b].category)

\* C9 as stated: the list is sorted by non-increasing priority and findings of
\* equal priority appear in the order cash-flow, spending trend, category
\* concentration, invoice health, tax funding.
C9_TiesInSpecOrder == Generated => OrderedBy(SpecRank)

\* C9 amended: the list is sorted by non-increasing priority and findings of
\* equal priority appear in the order the code evaluates the rules: spending
\* trend, cash-flow, category concentration, invoice health, tax funding.
C9_TiesInCodeOrder == Generated => OrderedBy(CodeRank)

\* a priority-8 spending increase right before a priority-8 low savings rate,
\* and a priority-7 pair as well
C9_Witness ==
    /\ Generated
    /\ \E a \in 1..(Len(insights) - 1) :
          /\ insights[a].id[1] = "spending_increase"
          /\ insights[a + 1].id[1] = "cashflow_low_savings"
          /\ insights[a].priority = insights[a + 1].priority
    /\ \E a \in 1..(Len(insights) - 1) :
          /\ insights[a].id[1] = "invoice_unpaid_many"
          /\ insights[a + 1].id[1] = "tax_underfunded"

\* the days ahead at which a later call is compared with the one made now
HorizonDays == 1

\* the condition a finding reports: its title, the numbers in it left out
Kind(i) == <<i.title.tpl, i.title.strs>>

SameLocalMonth(t1, t2) ==
    /\ YearOfDay(LocalDay(t1, tz)) = YearOfDay(LocalDay(t2, tz))
    /\ MonthOfDay(LocalDay(t1, tz)) = MonthOfDay(LocalDay(t2, tz))

\* the ids of the call made now and of a call made at instant t agree on the
\* findings both calls return
SameIdsAt(t) ==
    LET later == generateInsights(transactions, invoices, taxPayments,
                                  settings, t, tz)
    IN  \A i \in Range(insights), j \in Range(later) :
            Kind(i) = Kind(j) => i.id = j.id

\* C10: for fixed inputs, two calls at dates of the same calendar month give
\* a finding that both return the same id, so that a dismissal holds for
\* the whole month.
C10_IdsStableWithinMonth ==
    Generated =>
        \A k \in 1..HorizonDays :
            SameLocalMonth(now, now + 24 * k) => SameIdsAt(now + 24 * k)

-----------------------------------------------------------------------------
(* Claims about the dismissal store, under Spec *)

NoDuplicates(a) == \A i, j \in 1..Len(a) : i # j => a[i] # a[j]

Stored == getDismissedInsightIds(storage, TRUE)

\* the ids generateInsights returns for the session's records now
CurrentIds ==
    IdsOf(generateInsights(transactions, invoices, taxPayments, settings,
                           now, tz))

\* C5: once every id generateInsights returns has been added to the dismissed
\* store, getInsightCount with the same inputs at the same date returns 0.
C5_CountIsZeroAfterDismissingAll ==
    lastOp.op = "count" /\ lastOp.ok /\ CurrentIds \subseteq added
    => count = 0

\* three findings, each dismissed, and the count taken afterwards
C5_Witness ==
    /\ lastOp.op = "count"
    /\ lastOp.ok
    /\ Cardinality(CurrentIds) = 3
    /\ CurrentIds \subseteq added
    /\ count = 0

\* C6: a dismissal that goes through leaves the stored ids of before plus the
\* id, the id once; dismissing the same id again leaves the slot as it is.
C6_DismissIsIdempotent ==
    [][lastOp'.op = "dismiss" /\ lastOp'.ok =>
          LET id == lastOp'.arg[1].v
          IN  /\ Range(getDismissedInsightIds(storage', TRUE))
                    = Range(Stored) \cup {Str(id)}
              /\ Cardinality({k \in 1..Len(getDismissedInsightIds(storage', TRUE)) :
                     getDismissedInsightIds(storage', TRUE)[k] = Str(id)}) = 1
              /\ dismissInsightId(storage', id, TRUE, TRUE) = storage']_vars

\* an id dismissed a second time, with another id stored beside it
C6_Witness ==
    /\ lastOp.op = "dismiss"
    /\ lastOp.ok
    /\ Len(Stored) >= 2
    /\ Stored[Len(Stored)] # lastOp.arg[1]
    /\ lastOp.arg[1] \in Range(Stored)

\* C7: after setDismissedInsightIds(ids) for a list of strings,
\* getDismissedInsightIds() returns a list without duplicates whose elements
\* are those of ids, whatever the slot held before.
C7_SetThenGetIsTheSet ==
    lastOp.op = "set" /\ lastOp.ok /\ (\A x \in Range(lastOp.arg) : IsString(x))
    => /\ NoDuplicates(Stored)
       /\ Range(Stored) = Range(lastOp.arg)

\* a list that names one id twice
C7_Witness ==
    /\ lastOp.op = "set"
    /\ lastOp.ok
    /\ Len(lastOp.arg) = 2
    /\ lastOp.arg[1] = lastOp.arg[2]
    /\ Stored = <<lastOp.arg[1]>>

-----------------------------------------------------------------------------
(* Claims about the call as a whole *)

\* C11: a call of generateInsights leaves the transactions, invoices and
\* taxPayments arrays (length, order, every field) and the settings record
\* as they were before the call.
C11_InputsAreNotMutated ==
    [][lastOp'.op = "generate" => argVars' = argVars]_vars

\* a call that sorted categories, due dates and findings, on invoices that
\* are not in due-date order
C11_Witness ==
    /\ Generated
    /\ Found("pattern_top_category") # {}
    /\ Found("invoice_overdue") # {}
    /\ Len(invoices) >= 2
    /\ IsOverdue(invoices[1], now, tz)
    /\ IsOverdue(invoices[2], now, tz)
    /\ parseDate(invoices[1].due)[1] > parseDate(invoices[2].due)[1]

-----------------------------------------------------------------------------
(* The store and the count helper on every kind of slot content *)

\* an income whose date field holds a number: rule 5 throws on it
NumDatedIncome == Transaction("income", Amt(10), "Sales", NumDate(D0))

\* records with three findings, and records on which the generator throws
StoreScenarios == {<<SalesToday, TravelToday>>, <<NumDatedIncome>>}

\* an array holding an id no finding has, a number and the id of a finding
MixedArray ==
    JsonArray(<<Str(<<"tax_ontrack", 2025>>), NotAString,
                Str(<<"cashflow_good", 2026, 3>>)>>)

StoreSlots == {NoItem, EmptyText, InvalidJson, JsonObject, MixedArray}

InitStore ==
    InitWith(StoreScenarios, {<<>>}, {<<>>}, {DemoSettings}, {T0}, {0},
             StoreSlots)

NextStore ==
    \/ Generate
    \/ GenerateThrows
    \/ \E ok \in BOOLEAN : GetCount(ok)
    \/ \E ids \in BoundedSeq(SetPool, MaxIds), ok \in BOOLEAN :
          SetDismissed(ids, ok)
    \/ \E id \in IdsOf(insights), ok \in BOOLEAN : Dismiss(id, ok)
    \/ \E ok \in BOOLEAN : Clear(ok)
    \/ Tick

SpecStore == InitStore /\ [][NextStore]_vars

\* the store read by a mounting dashboard between writes: the values a caller
\* may pass to setDismissedInsightIds include one that is no string
LoadPool == SetPool \cup {NotAString}

InitLoad ==
    InitWith({<<SalesToday>>}, {<<>>}, {<<>>}, {DemoSettings}, {T0}, {0},
             StoreSlots)

NextLoad ==
    \/ \E ok \in BOOLEAN : Load(ok)
    \/ \E ids \in BoundedSeq(LoadPool, MaxIds), ok \in BOOLEAN :
          SetDismissed(ids, ok)
    \/ \E ok \in BOOLEAN : Clear(ok)

SpecLoad == InitLoad /\ [][NextLoad]_vars

-----------------------------------------------------------------------------
(* Claims about the store and the count helper, under SpecStore and SpecLoad *)

StoredAfter == getDismissedInsightIds(storage', TRUE)

\* C12 as stated: whatever the operation, unless it is the explicit clear, the
\* ids stored before it are stored after it.
C12_OnlyClearRemovesIds ==
    [][lastOp'.op # "clear" => Range(Stored) \subseteq Range(StoredAfter)]_vars

\* C12 amended: the ids stored before an operation are stored after it unless
\* the operation is the explicit clear or a setDismissedInsightIds(ids) whose
\* list lacks them; the passing of days and re-generation remove nothing.
C12_IdsStayUntilClearedOrReplaced ==
    [][/\ lastOp'.op \notin {"clear", "set"}
          => Range(Stored) \subseteq Range(StoredAfter)
       /\ lastOp'.op = "set"
          => Range(Stored) \cap Range(lastOp'.arg) \subseteq Range(StoredAfter)]_vars

\* ids dismissed on one day are stored after the next day's re-generation
C12_Witness ==
    /\ Generated
    /\ now > T0
    /\ Cardinality(added) >= 2
    /\ added \subseteq {x.v : x \in Range(Stored)}

RECURSIVE StringsOf(_)
\* the string elements of a list of values, in order
StringsOf(a) ==
    IF Len(a) = 0 THEN <<>>
    ELSE IF Head(a).t = "string" THEN <<Head(a)>> \o StringsOf(Tail(a))
    ELSE StringsOf(Tail(a))

\* C13: getDismissedInsightIds returns the empty list when storage cannot be
\* read, the slot is absent or empty, or it holds invalid JSON or a value that
\* is no array; when the slot holds an array it returns its string elements.
C13_GetDegradesToEmpty ==
    lastOp.op = "load" =>
        IF lastOp.ok /\ storage.kind = "array"
        THEN dismissedState = StringsOf(storage.items)
        ELSE dismissedState = <<>>

\* an array with a non-string element read: the two ids come back
C13_Witness ==
    /\ lastOp.op = "load"
    /\ lastOp.ok
    /\ storage.kind = "array"
    /\ \E x \in Range(storage.items) : x.t # "string"
    /\ Len(dismissedState) = 2

Throws ==
    generateThrows(transactions, invoices, taxPayments, settings, now, tz)

\* the generated insights whose id is not among ids
ActiveCount(ids) ==
    LET all == generateInsights(transactions, invoices, taxPayments, settings,
                                now, tz)
    IN  Cardinality({i \in 1..Len(all) : Str(all[i].id) \notin Range(ids)})

\* C14 as stated: getInsightCount returns 0 whenever the generator or the
\* store fails, and otherwise the number of generated insights whose id is
\* not in the dismissed set.
C14_AnyFailureYieldsZero ==
    lastOp.op = "count" =>
        IF Throws \/ ~lastOp.ok THEN count = 0
        ELSE count = ActiveCount(Stored)

\* C14 amended: getInsightCount returns 0 when the generator throws; otherwise
\* it returns the number of generated insights whose id is not in the list
\* getDismissedInsightIds returns, which is empty when the store cannot be
\* read, so that a store failure yields the number of all generated insights.
C14_CountIsActiveOrZero ==
    lastOp.op = "count" =>
        IF Throws THEN count = 0
        ELSE count = ActiveCount(IF lastOp.ok THEN Stored ELSE <<>>)

\* the count taken on records on which the generator throws
C14_Witness ==
    /\ lastOp.op = "count"
    /\ Throws
    /\ count = 0

-----------------------------------------------------------------------------
(* The generator on records with missing or malformed fields *)

\* the most transactions drawn from FieldPool
MaxFieldTx == 3

\* well-formed records beside records with an absent amount, a missing or
\* blank category, a date that does not parse and no date
FieldPool ==
    {Expense(10, "Rent", D0), Expense(8, "Rent", D0 - 45), Income(10, D0),
     Transaction("expense", NoAmount, "Rent", Ymd(D0)),
     Expense(10, "", D0), Expense(10, "  ", D0),
     Transaction("expense", Amt(10), "Rent", BadDate(2026)),
     Transaction("expense", Amt(30), "Rent", NoDate),
     Transaction("income", Amt(10), "Sales", BadDate(2026)),
     Transaction("income", Amt(10), "Sales", NoDate)}

FieldInvoices ==
    <<Invoice("unpaid", NoAmount, Ymd(D0 - 2)),
      Invoice("unpaid", Amt(100), BadDate(2026)),
      Invoice("unpaid", Amt(100), NoDate)>>

FieldTaxPayments ==
    <<TaxPayment(NoAmount, Ymd(D0)), TaxPayment(Amt(1), BadDate(2026)),
      TaxPayment(Amt(1), NoDate)>>

InitFields ==
    InitWith(BoundedSeq(FieldPool, MaxFieldTx), {FieldInvoices},
             {<<>>, FieldTaxPayments}, {DemoSettings}, {T0}, {0}, {NoItem})

SpecFields == InitFields /\ [][Generate]_vars

-----------------------------------------------------------------------------
(* Claims about missing and malformed fields, under SpecFields *)

Parses(ds)  == ds.k = "ymd"
HasDate(ds) == ds.k # "none"

ZeroIfAbsent(a)  == IF a = NoAmount THEN Amt(0) ELSE a
NamedCategory(c) == IF c \in {"", "  "} THEN "Uncategorized" ELSE c

\* the transactions whose date satisfies Keep, an absent amount written as 0
\* and a missing or blank category as "Uncategorized"
CleanTxs(Keep(_)) ==
    LET Kept(x) == Keep(x.date)
        kept    == SelectSeq(transactions, Kept)
    IN  [i \in 1..Len(kept) |->
            [kept[i] EXCEPT !.amount = ZeroIfAbsent(@),
                            !.category = NamedCategory(@)]]

CleanTps(Keep(_)) ==
    LET Kept(x) == Keep(x.date)
        kept    == SelectSeq(taxPayments, Kept)
    IN  [i \in 1..Len(kept) |-> [kept[i] EXCEPT !.amount = ZeroIfAbsent(@)]]

CleanInvs ==
    LET Kept(x) == Parses(x.due)
        kept    == SelectSeq(invoices, Kept)
    IN  [i \in 1..Len(kept) |-> [kept[i] EXCEPT !.amount = ZeroIfAbsent(@)]]

\* the returned findings of one category
Of(cat) == LET Is(i) == i.category = cat IN SelectSeq(insights, Is)

\* the findings of rules 1 to 4 are those of the records whose date parses,
\* with amounts and categories written out
WindowRulesIgnoreMalformed ==
    /\ Of("spending") = SpendingRule(CleanTxs(Parses), settings, now, tz)
    /\ Of("cashflow") = CashflowRule(CleanTxs(Parses), settings, now, tz)
    /\ Of("patterns") = PatternRule(CleanTxs(Parses), settings, now, tz)
    /\ Of("invoices") = InvoiceRule(CleanInvs, settings, now, tz)

-----------------------------------------------------------------------------
(* Claims about the number of findings, under SpecMix *)

Categories == {"spending", "cashflow", "patterns", "invoices", "tax"}

\* C16: the returned list holds at most one finding of each category
\* (spending, cashflow, patterns, invoices, tax), hence at most five findings,
\* and no two findings share an id.
C16_AtMostOnePerRule ==
    Generated =>
        /\ \A i \in Range(insights) : i.category \in Categories
        /\ \A cat \in Categories : Len(Of(cat)) <= 1
        /\ Len(insights) <= 5
        /\ \A a, b \in 1..Len(insights) :
              a # b => insights[a].id # insights[b].id

\* every rule has pushed its finding
C16_Witness ==
    /\ Generated
    /\ Len(insights) = 5
    /\ \A cat \in Categories : Len(Of(cat)) = 1

-----------------------------------------------------------------------------
(* Claims about the cash-flow rule's window and branches, under SpecCash *)

\* the transactions that are not dated after today
NotFuture ==
    LET Is(x) == ~(x.date.k = "ymd" /\ x.date.d > LocalDay(now, tz))
    IN  SelectSeq(transactions, Is)

\* C17: a transaction dated after today is not counted in the last-30-days
\* totals: the cash-flow, spending-trend and category findings are those of
\* the transactions dated today or earlier.
C17_FutureIsNotCounted ==
    Generated /\ Len(transactions) > 0 =>
        /\ Of("cashflow") = CashflowRule(NotFuture, settings, now, tz)
        /\ Of("spending") = SpendingRule(NotFuture, settings, now, tz)
        /\ Of("patterns") = PatternRule(NotFuture, settings, now, tz)

WindowIncome   == sumTx(txInLastDays(transactions, 30, now, tz), "income")
WindowExpenses == sumTx(txInLastDays(transactions, 30, now, tz), "expense")

\* the id prefixes of the returned findings of one category
KindsOf(cat) == [i \in 1..Len(Of(cat)) |-> Of(cat)[i].id[1]]

\* C18 as stated: below a minimum number of transactions, such as a single
\* transaction, the cash-flow rule emits no finding whatever the amounts.
C18_SingleTransactionGivesNothing ==
    Generated /\ Len(transactions) = 1 => Of("cashflow") = <<>>

\* C18 amended: the cash-flow rule asks for activity, not for a number of
\* transactions: it emits a finding only when the window's income or
\* expenses are positive, and a window with expenses and no income gets the
\* negative finding however few transactions there are.
C18_ActivityNotCount ==
    Generated /\ Len(transactions) > 0 =>
        /\ Of("cashflow") # <<>> => WindowIncome > 0 \/ WindowExpenses > 0
        /\ WindowIncome = 0 /\ WindowExpenses > 0
              => KindsOf("cashflow") = <<"cashflow_negative">>

\* a single expense, reported as negative cash flow
C18_Witness ==
    /\ Generated
    /\ Len(transactions) = 1
    /\ WindowIncome = 0
    /\ KindsOf("cashflow") = <<"cashflow_negative">>

\* C19: over the trailing window, net < 0 gives the negative finding;
\* otherwise income > 0 and net/income < 10% gives the low-savings warning;
\* otherwise income > 0 and net/income >= 20% gives the healthy finding; a
\* ratio in [10%, 20%) or a window without income and expenses gives nothing.
C19_CashflowBranches ==
    Generated /\ Len(transactions) > 0 =>
        KindsOf("cashflow") =
            IF WindowNet < 0 THEN <<"cashflow_negative">>
            ELSE IF WindowIncome > 0 /\ WindowNet * 100 < 10 * WindowIncome
                 THEN <<"cashflow_low_savings">>
            ELSE IF WindowIncome > 0 /\ WindowNet * 100 >= 20 * WindowIncome
                 THEN <<"cashflow_good">>
            ELSE <<>>

\* a savings rate of 10%, for which nothing is reported
C19_Witness ==
    /\ Generated
    /\ WindowIncome > 0
    /\ WindowNet * 100 = 10 * WindowIncome
    /\ Of("cashflow") = <<>>

-----------------------------------------------------------------------------
(* Claims about the spending rule's branches, under SpecSpend *)

\* C20: the spending rule emits a finding only when the preceding-30-day
\* expense total is > 0 and the current one is > 0: the increase finding when
\* the change is at least 20%, the decrease finding when it is at most -15%,
\* never both, and nothing in between.
C20_SpendingBranches ==
    Generated /\ Len(transactions) > 0 =>
        KindsOf("spending") =
            IF PrevSpend > 0 /\ CurrSpend > 0
               /\ (CurrSpend - PrevSpend) * 100 >= 20 * PrevSpend
            THEN <<"spending_increase">>
            ELSE IF PrevSpend > 0 /\ CurrSpend > 0
                    /\ (CurrSpend - PrevSpend) * 100 <= -15 * PrevSpend
            THEN <<"spending_decrease">>
            ELSE <<>>

\* a fall of 20%, reported as a decrease
C20_Witness ==
    /\ Generated
    /\ PrevSpend = 10
    /\ CurrSpend = 8
    /\ KindsOf("spending") = <<"spending_decrease">>

-----------------------------------------------------------------------------
(* The generator on expenses of several categories *)

\* the most transactions drawn from PatternPool
MaxPatternTx == 4

\* expenses of the trailing 30 days with a category, without one and with a
\* blank one, an expense before the window and an income
PatternPool ==
    {Expense(6, "Rent", D0), Expense(5, "Travel", D0), Expense(5, "", D0),
     Expense(4, "  ", D0), Expense(9, "Rent", D0 - 45), Income(10, D0)}

InitPattern ==
    InitWith(BoundedSeq(PatternPool, MaxPatternTx), {<<>>}, {<<>>},
             {DemoSettings}, {T0}, {0}, {NoItem})

SpecPattern == InitPattern /\ [][Generate]_vars

-----------------------------------------------------------------------------
(* Claims about the category-concentration rule, under SpecPattern *)

\* the expenses the window filter selects
WindowExpenseTxs ==
    LET IsExpense(x) == x.type = "expense"
    IN  SelectSeq(txInLastDays(transactions, 30, now, tz), IsExpense)

\* the sum of the window's expenses filed under a category name, a missing or
\* blank category being filed under "Uncategorized"
CatTotal(c) ==
    LET Filed(x) == NamedCategory(x.category) = c
    IN  SumAmounts(SelectSeq(WindowExpenseTxs, Filed))

WindowCats ==
    {NamedCategory(WindowExpenseTxs[i].category) : i \in DOMAIN WindowExpenseTxs}

\* the largest category total of the window (0 when it has no expense)
MaxCatTotal ==
    IF WindowCats = {} THEN 0
    ELSE LET c == CHOOSE c \in WindowCats :
                      \A o \in WindowCats : CatTotal(c) >= CatTotal(o)
         IN  CatTotal(c)

\* the pattern finding names a category of the largest total and gives its
\* share to one decimal
NamesALargest ==
    \A i \in Range(Of("patterns")) :
        /\ i.id[1] = "pattern_top_category"
        /\ Len(i.title.strs) = 1
        /\ i.title.strs[1] \in WindowCats
        /\ CatTotal(i.title.strs[1]) = MaxCatTotal
        /\ i.message.nums = <<ToFixed(MaxCatTotal * 100, WindowExpenses, 1)>>

\* C21 as stated: the category-concentration rule emits its finding if and
\* only if the window's expense total is > 0 and the largest category's share
\* is above 45%; the finding names a category of the largest total, a missing
\* or blank category counting as "Uncategorized".
C21_FindingIffShareAbove45 ==
    Generated /\ Len(transactions) > 0 =>
        /\ Len(Of("patterns")) = 1 <=>
              WindowExpenses > 0 /\ MaxCatTotal * 100 > 45 * WindowExpenses
        /\ Len(Of("patterns")) <= 1
        /\ NamesALargest

\* C21 amended: the finding is emitted if and only if the window's expense
\* total is > 0 and the largest category's share is at least 45%.
C21_FindingIffShareAtLeast45 ==
    Generated /\ Len(transactions) > 0 =>
        /\ Len(Of("patterns")) = 1 <=>
              WindowExpenses > 0 /\ MaxCatTotal * 100 >= 45 * WindowExpenses
        /\ Len(Of("patterns")) <= 1
        /\ NamesALargest

\* an expense without a category and one with a blank category make
\* "Uncategorized" the largest category, with a share of exactly 45%
C21_Witness ==
    /\ Generated
    /\ \E i \in Range(Of("patterns")) : i.title.strs = <<"Uncategorized">>
    /\ \E x \in Range(transactions) : x.category = ""
    /\ \E x \in Range(transactions) : x.category = "  "
    /\ MaxCatTotal * 100 = 45 * WindowExpenses

-----------------------------------------------------------------------------
(* Claims about the overdue finding's id, under SpecInv *)

\* the ids of the overdue findings a call with the invoice list invs returns
\* (the other arguments as they are)
OverdueIds(invs) ==
    LET out == generateInsights(transactions, invs, taxPayments, settings,
                                now, tz)
    IN  {i.id : i \in {j \in Range(out) : j.id[1] = "invoice_overdue"}}

\* the earliest due day among the overdue invoices of invs: a set of one day,
\* or empty when none is overdue
EarliestOverdue(invs) ==
    LET days == {invs[k].due.d :
                    k \in {j \in 1..Len(invs) : DueLocallyBeforeToday(invs[j])}}
    IN  {d \in days : \A e \in days : d <= e}

\* the list without its k-th invoice
Without(invs, k) == SubSeq(invs, 1, k - 1) \o SubSeq(invs, k + 1, Len(invs))

\* the lists one change away from the invoice list: an invoice added, an
\* invoice removed
OneInvoiceAway ==
    {Append(invoices, e) : e \in InvoicePool}
    \cup {Without(invoices, k) : k \in 1..Len(invoices)}

\* the lists that differ from the invoice list in one amount
OneAmountAway ==
    {[invoices EXCEPT ![k].amount = a] :
        k \in 1..Len(invoices), a \in {NoAmount, Amt(1), Amt(250)}}

\* C22: the overdue finding's id is keyed by the earliest due date among the
\* overdue invoices: adding or removing an invoice, or changing an amount,
\* leaves the id unchanged when the earliest overdue due date is unchanged,
\* and changes it when that date changes.
C22_OverdueIdIsEarliestDue ==
    Generated /\ Len(transactions) > 0 =>
        /\ {i.id : i \in Found("invoice_overdue")}
              = {<<"invoice_overdue", d>> : d \in EarliestOverdue(invoices)}
        /\ \A other \in OneInvoiceAway :
              (OverdueIds(other) = OverdueIds(invoices))
                 <=> (EarliestOverdue(other) = EarliestOverdue(invoices))
        /\ \A other \in OneAmountAway :
              OverdueIds(other) = OverdueIds(invoices)

\* two overdue invoices, the later one listed first: the id carries the due
\* date of the second
C22_Witness ==
    /\ Generated
    /\ Len(invoices) >= 2
    /\ DueLocallyBeforeToday(invoices[1])
    /\ DueLocallyBeforeToday(invoices[2])
    /\ invoices[2].due.d < invoices[1].due.d
    /\ \E i \in Found("invoice_overdue") :
          i.id = <<"invoice_overdue", invoices[2].due.d>>

-----------------------------------------------------------------------------
(* Claims about the "many unpaid invoices" finding, under SpecMix *)

IsUnpaid(inv) == inv.status = "unpaid"

\* C23: the "many unpaid invoices" finding is emitted if and only if no
\* invoice is overdue and at least 5 invoices are unpaid; it is never emitted
\* together with the overdue finding; paid and void invoices count toward
\* neither.
C23_ManyUnpaidIffFiveAndNoneOverdue ==
    Generated =>
        /\ Found("invoice_unpaid_many") # {}
              <=> /\ CountInvoices(DueLocallyBeforeToday) = 0
                  /\ CountInvoices(IsUnpaid) >= 5
        /\ Found("invoice_unpaid_many") = {} \/ Found("invoice_overdue") = {}
        /\ \A i \in Found("invoice_unpaid_many") :
              i.message.nums = <<CountInvoices(IsUnpaid)>>

-----------------------------------------------------------------------------
(* Claims about the tax rule's outcomes, under SpecTax *)

\* paid / estimated >= pct%, with estimated = YtdIncome * CombinedRate / 100
FundedAtLeast(pct) == YtdTaxPaid * 100 * 100 >= pct * YtdIncome * CombinedRate

\* C24: the underfunded warning is never emitted in January or February; the
\* on-track finding is emitted only when the funded ratio is at least 80% and
\* year-to-date payments are > 0; the two are never emitted by the same call;
\* no tax finding is emitted when YTD income is 0 or the combined rate is 0.
C24_TaxOutcomes ==
    Generated =>
        /\ Found("tax_underfunded") # {} => MonthOfDay(Today0) >= 3
        /\ Found("tax_ontrack") # {} => FundedAtLeast(80) /\ YtdTaxPaid > 0
        /\ Found("tax_underfunded") = {} \/ Found("tax_ontrack") = {}
        /\ YtdIncome = 0 \/ CombinedRate = 0 => Of("tax") = <<>>

\* February, income of this year, a positive rate and payments below 60% of
\* the estimate: the call reports nothing about tax
C24_Witness ==
    /\ Generated
    /\ MonthOfDay(Today0) = 2
    /\ YtdIncome > 0
    /\ CombinedRate > 0
    /\ YtdTaxPaid > 0
    /\ ~FundedAtLeast(60)
    /\ Of("tax") = <<>>

-----------------------------------------------------------------------------
(* Claims about failed writes to the store, under SpecLoad *)

\* the step is a call of setDismissedInsightIds during which setItem throws
FailedWrite == lastOp'.op = "set" /\ ~lastOp'.ok

\* C25: a failed write is swallowed: the call returns, the slot keeps what it
\* held, and getDismissedInsightIds returns afterwards what it returned
\* before the call.
C25_FailedWriteKeepsTheStoredSet ==
    [][FailedWrite =>
          /\ storage' = storage
          /\ \A r \in BOOLEAN :
                getDismissedInsightIds(storage', r)
                   = getDismissedInsightIds(storage, r)]_vars

\* a write of an id that is not stored has failed; the slot holds the ids it
\* held, and a dashboard that loads them gets those
C25_Witness ==
    /\ lastOp.op = "set"
    /\ ~lastOp.ok
    /\ storage = MixedArray
    /\ \E x \in Range(lastOp.arg) :
          IsString(x) /\ x \notin Range(storage.items)

-----------------------------------------------------------------------------
(* The dashboard (InsightsDashboard.tsx): the generated list, the dismissed *)
(* ids it keeps in its state, its filters, and the list it displays         *)

\* insight.severity: the engine's Insight has no such field
severity(i) == "undefined"

\* filtered.sort by severityOrder[b.severity] - severityOrder[a.severity]:
\* both lookups give undefined, the comparator gives NaN for every pair, which
\* sort takes as 0, and the order is kept
SortBySeverity(ins) == ins

\* mutant of filteredInsights: the dismissed ids are not filtered out
filteredInsights_KeepsDismissed(all, dismissed, cat, sev, by) ==
    LET InCat(i) == cat = "all" \/ i.category = cat
        OfSev(i) == sev = "all" \/ severity(i) = sev
        filtered == SelectSeq(SelectSeq(all, InCat), OfSev)
    IN  IF by = "priority" THEN SortByPriority(filtered)
        ELSE SortBySeverity(filtered)

\* the useMemo filteredInsights: the list the dashboard displays
filteredInsights(all, dismissed, cat, sev, by) ==
    LET Shown(i) == Str(i.id) \notin Range(dismissed)
        InCat(i) == cat = "all" \/ i.category = cat
        OfSev(i) == sev = "all" \/ severity(i) = sev
        filtered == SelectSeq(SelectSeq(SelectSeq(all, Shown), InCat), OfSev)
    IN  IF by = "priority" THEN SortByPriority(filtered)
        ELSE SortBySeverity(filtered)

\* what the dashboard displays in the current state
Displayed ==
    filteredInsights(insights, dismissedState, selectedCategory,
                     selectedSeverity, sortBy)

\* the user presses the dismiss button of a displayed insight:
\* dismissInsightId(id); setDismissed(new Set(getDismissedInsightIds()))
dismiss(id, ok) ==
    /\ id \in IdsOf(Displayed)
    /\ storage' = dismissInsightId(storage, id, ok, ok)
    /\ dismissedState' = getDismissedInsightIds(storage', ok)
    /\ added' = IF ok THEN added \cup {id} ELSE added
    /\ userDismissed' = userDismissed \cup {id}
    /\ lastOp' = Op("ui_dismiss", ok, <<Str(id)>>)
    /\ UNCHANGED <<argVars, envVars, insights, count, selectedCategory,
                   selectedSeverity, sortBy>>
    /\ UNCHANGED appVars

\* mutant of resetDismissed: the dashboard's own set is not emptied
resetDismissed_KeepsState(ok) ==
    /\ storage' = clearDismissedInsights(storage, ok)
    /\ added' = IF ok THEN {} ELSE added
    /\ userDismissed' = {}
    /\ lastOp' = Op("ui_reset", ok, dismissedState)
    /\ UNCHANGED <<argVars, envVars, insights, count, dismissedState,
                   selectedCategory, selectedSeverity, sortBy>>
    /\ UNCHANGED appVars

\* the user presses "Reset dismissed":
\* clearDismissedInsights(); setDismissed(new Set())
\* (the operation's record keeps the ids the dashboard held before it)
resetDismissed(ok) ==
    /\ storage' = clearDismissedInsights(storage, ok)
    /\ dismissedState' = <<>>
    /\ added' = IF ok THEN {} ELSE added
    /\ userDismissed' = {}
    /\ lastOp' = Op("ui_reset", ok, dismissedState)
    /\ UNCHANGED <<argVars, envVars, insights, count, selectedCategory,
                   selectedSeverity, sortBy>>
    /\ UNCHANGED appVars

\* the user picks a category, a severity or a sort order
setSelectedCategory(c) ==
    /\ selectedCategory' = c
    /\ lastOp' = Op("filter", TRUE, <<>>)
    /\ UNCHANGED <<argVars, envVars, insights, count, storage, dismissedState,
                   added, selectedSeverity, sortBy, userDismissed>>
    /\ UNCHANGED appVars

setSelectedSeverity(sev) ==
    /\ selectedSeverity' = sev
    /\ lastOp' = Op("filter", TRUE, <<>>)
    /\ UNCHANGED <<argVars, envVars, insights, count, storage, dismissedState,
                   added, selectedCategory, sortBy, userDismissed>>
    /\ UNCHANGED appVars

setSortBy(by) ==
    /\ sortBy' = by
    /\ lastOp' = Op("filter", TRUE, <<>>)
    /\ UNCHANGED <<argVars, envVars, insights, count, storage, dismissedState,
                   added, selectedCategory, selectedSeverity, userDismissed>>
    /\ UNCHANGED appVars

\* the slot when the dashboard opens: nothing, or the id of a finding of an
\* earlier year
DashSlots == {NoItem, JsonArray(<<Str(<<"tax_ontrack", 2025>>)>>)}

\* records with two findings (negative cash flow and the top category)
InitDash ==
    InitWith({<<RentToday>>}, {<<>>}, {<<>>}, {DemoSettings}, {T0}, {0},
             DashSlots)

\* the dashboard mounts (its effect loads the dismissed ids), then the user
\* acts on it; the list is generated on the first render and again whenever
\* the records it is given change
NextDash ==
    \/ lastOp.op = "init" /\ \E ok \in BOOLEAN : Load(ok)
    \/ lastOp.op # "init" /\ Generate
    \/ lastOp.op # "init" /\ \E id \in IdsOf(insights), ok \in BOOLEAN : dismiss(id, ok)
    \/ lastOp.op # "init" /\ \E ok \in BOOLEAN : resetDismissed(ok)
    \/ lastOp.op # "init" /\ \E c \in {"all", "cashflow", "tax"} : setSelectedCategory(c)
    \/ lastOp.op # "init" /\ \E sev \in {"all", "high"} : setSelectedSeverity(sev)
    \/ lastOp.op # "init" /\ \E by \in {"priority", "severity"} : setSortBy(by)

SpecDash == InitDash /\ [][NextDash]_vars

-----------------------------------------------------------------------------
(* Claims about the reset and about dismissed insights, under SpecDash *)

\* what a call of generateInsights on the current records returns
GeneratedNow ==
    generateInsights(transactions, invoices, taxPayments, settings, now, tz)

\* C26: after the explicit reset the store's get returns no id and every
\* generated insight is active again: the dashboard displays all that pass
\* its category and severity filters, and getInsightCount is the number of
\* generated insights (the store being read as it is during the reset).
C26_ResetMakesAllActive ==
    lastOp.op = "ui_reset" =>
        /\ getDismissedInsightIds(storage, lastOp.ok) = <<>>
        /\ Displayed
              = filteredInsights(insights, <<>>, selectedCategory,
                                 selectedSeverity, sortBy)
        /\ selectedCategory = "all" /\ selectedSeverity = "all"
              => Displayed = insights
        /\ getInsightCount(transactions, invoices, taxPayments, settings, now,
                           tz, storage, lastOp.ok) = Len(GeneratedNow)

\* both findings were dismissed and stored; after the reset both are
\* displayed and nothing is stored
C26_Witness ==
    /\ lastOp.op = "ui_reset"
    /\ lastOp.ok
    /\ Len(insights) = 2
    /\ {Str(id) : id \in IdsOf(insights)} \subseteq Range(lastOp.arg)
    /\ Displayed = insights
    /\ storage = NoItem

\* C27: once the user has dismissed an id, no insight with that id is
\* displayed in any later state, whatever is re-generated and whatever the
\* filters and the sort order are, until the user resets; and the displayed
\* list holds only generated insights whose id is not dismissed.
C27_DismissedStayHiddenUntilReset ==
    /\ IdsOf(Displayed) \cap userDismissed = {}
    /\ Range(Displayed)
          \subseteq {i \in Range(insights) : i.id \notin userDismissed}

-----------------------------------------------------------------------------
(* Claims about the guard on the transaction list, under SpecMix *)

-----------------------------------------------------------------------------
(* The app shell (App.tsx): page navigation with the asynchronous insight   *)
(* request, and the invoice drawer.  A handler runs to its end, with the    *)
(* render that follows it, before the next event is taken; what runs after  *)
(* the await of loadInsight is an event of its own.                         *)

\* the engine's, the store's and the dashboard's variables, which the app
\* shell leaves alone
engineVars == <<transactions, taxPayments, settings, envVars, insights, count,
                storage, dismissedState, added, dashVars>>

\* the most loadInsight calls of a run
MaxRequests == 3

\* an invoice of the app's list, with the fields the handlers read
AppInvoice(id, status) ==
    [id |-> id, status |-> status, amount |-> Amt(100), due |-> Ymd(D0)]

\* data.invoices of getFreshDemoData
DemoInvoices ==
    <<AppInvoice("inv_demo_1", "unpaid"), AppInvoice("inv_demo_2", "paid"),
      AppInvoice("inv_demo_3", "unpaid")>>

\* loadInsight up to its await: the flag is set and the request is started
loadInsight ==
    /\ started < MaxRequests
    /\ loadingInsight' = TRUE
    /\ started' = started + 1
    /\ pending' = pending \cup {started + 1}
    /\ UNCHANGED insight

\* the effect of the first render: the page is the Dashboard, so loadInsight
Mount ==
    /\ started = 0
    /\ activePage = "Dashboard"
    /\ loadInsight
    /\ lastOp' = Op("mount", TRUE, <<>>)
    /\ UNCHANGED <<activePage, invoices, drawerVars, engineVars>>

\* a sidebar button (covered by the overlay while the drawer is open):
\* setActivePage(page), and the effect on [activePage] after the render
setActivePage(page) ==
    /\ started > 0
    /\ drawerMode = "null"
    /\ page # activePage
    /\ activePage' = page
    /\ IF page = "Dashboard" THEN loadInsight
       ELSE UNCHANGED <<loadingInsight, insight, pending, started>>
    /\ lastOp' = Op("page", TRUE, <<>>)
    /\ UNCHANGED <<invoices, drawerVars, engineVars>>

\* request n resolves and loadInsight goes on after its await:
\* setInsight(result); setLoadingInsight(false)
loadInsightResumes(n) ==
    /\ n \in pending
    /\ pending' = pending \ {n}
    /\ insight' = n
    /\ loadingInsight' = FALSE
    /\ lastOp' = Op("resolved", TRUE, <<>>)
    /\ UNCHANGED <<activePage, started, invoices, drawerVars, engineVars>>

\* inv.id === invoice.id ? { ...inv, status: newStatus } : inv
updateInvoice(inv, id, newStatus) ==
    IF inv.id = id THEN [inv EXCEPT !.status = newStatus] ELSE inv

\* prev.map(updateInvoice)
MapUpdate(invs, id, newStatus) ==
    [k \in 1..Len(invs) |-> updateInvoice(invs[k], id, newStatus)]

\* prev ? { ...prev, status } : null
WithStatus(item, status) ==
    IF Len(item) = 0 THEN <<>> ELSE <<[item[1] EXCEPT !.status = status]>>

\* the drawer is rendered with its action bar
ActionBarShown ==
    /\ drawerMode = "edit_inv"
    /\ Len(activeItem) > 0
    /\ activeItem[1].id # ""

\* mutant of ToggleEnabled: the button is never disabled
ToggleEnabled_Always == ActionBarShown

\* the Mark Paid / Mark Unpaid button is shown and not disabled
ToggleEnabled == ActionBarShown /\ activeItem[1].status # "void"

\* the Void button is rendered
VoidShown == ActionBarShown /\ activeItem[1].status # "void"

toggleInvoicePaidStatus(invoice) ==
    LET newStatus == IF invoice.status = "paid" THEN "unpaid" ELSE "paid"
    IN  /\ invoices' = MapUpdate(invoices, invoice.id, newStatus)
        /\ activeItem' = WithStatus(activeItem, newStatus)
        /\ lastOp' = Op("toggle", TRUE, <<invoice.id>>)
        /\ UNCHANGED <<drawerMode, loadVars, engineVars>>

voidInvoice(invoice) ==
    /\ invoices' = MapUpdate(invoices, invoice.id, "void")
    /\ activeItem' = WithStatus(activeItem, "void")
    /\ lastOp' = Op("void", TRUE, <<invoice.id>>)
    /\ UNCHANGED <<drawerMode, loadVars, engineVars>>

\* the Edit button of row k of the Invoices page:
\* setActiveItem(invoice); setDrawerMode('edit_inv')
EditInvoice(k) ==
    /\ started > 0
    /\ activePage = "Invoices"
    /\ drawerMode = "null"
    /\ activeItem' = <<invoices[k]>>
    /\ drawerMode' = "edit_inv"
    /\ lastOp' = Op("edit", TRUE, <<invoices[k].id>>)
    /\ UNCHANGED <<invoices, loadVars, engineVars>>

\* the X of the drawer: setDrawerMode(null); setActiveItem(null)
CloseDrawer ==
    /\ drawerMode # "null"
    /\ Len(activeItem) > 0
    /\ drawerMode' = "null"
    /\ activeItem' = <<>>
    /\ lastOp' = Op("close", TRUE, <<>>)
    /\ UNCHANGED <<invoices, loadVars, engineVars>>

\* a click on the overlay: setDrawerMode(null)
OverlayClick ==
    /\ drawerMode # "null"
    /\ drawerMode' = "null"
    /\ lastOp' = Op("overlay", TRUE, <<>>)
    /\ UNCHANGED <<invoices, activeItem, loadVars, engineVars>>

InitApp ==
    InitWith({<<>>}, {DemoInvoices}, {<<>>}, {DemoSettings}, {T0}, {0},
             {NoItem})

NextApp ==
    \/ Mount
    \/ \E page \in {"Dashboard", "Invoices"} : setActivePage(page)
    \/ \E n \in 1..MaxRequests : loadInsightResumes(n)
    \/ \E k \in 1..Len(invoices) : EditInvoice(k)
    \/ ToggleEnabled /\ toggleInvoicePaidStatus(activeItem[1])
    \/ VoidShown /\ voidInvoice(activeItem[1])
    \/ CloseDrawer
    \/ OverlayClick

SpecApp == InitApp /\ [][NextApp]_vars

-----------------------------------------------------------------------------
(* Claims about the app shell, under SpecApp *)

\* C29: the loading flag is true whenever an insight request is in flight:
\* loadingInsight is false only when no getFinancialInsights call is pending,
\* and once none is pending the insight text shown is the result of the
\* request started last.
C29_LoadingWhileInFlight ==
    /\ ~loadingInsight => pending = {}
    /\ pending = {} /\ started > 0 => insight = started

\* the drawer is rendered
DrawerOpen == drawerMode # "null" /\ Len(activeItem) > 0

\* the status the drawer shows is that of the listed invoice of the same id
ShownMatchesList ==
    DrawerOpen =>
        /\ \E k \in 1..Len(invoices) : invoices[k].id = activeItem[1].id
        /\ \A k \in 1..Len(invoices) :
              invoices[k].id = activeItem[1].id
                 => invoices[k].status = activeItem[1].status

\* a step leaves a void invoice void
VoidIsAbsorbing ==
    /\ Len(invoices') = Len(invoices)
    /\ \A k \in 1..Len(invoices) :
          invoices[k].status = "void" => invoices'[k].status = "void"

\* a step changes the status of the acted-on invoice only, and the toggle
\* turns paid into unpaid and unpaid into paid
OnlyActedOnChanges ==
    \A k \in 1..Len(invoices) :
        invoices'[k].status # invoices[k].status =>
            /\ lastOp'.op \in {"toggle", "void"}
            /\ lastOp'.arg = <<invoices[k].id>>
            /\ invoices'[k] = [invoices[k] EXCEPT !.status = invoices'[k].status]
            /\ lastOp'.op = "toggle" =>
                  {invoices[k].status, invoices'[k].status} = {"paid", "unpaid"}

\* the toggle and the Void action act: the acted-on invoice changes
ActionsAct ==
    /\ lastOp'.op = "toggle" =>
          \E k \in 1..Len(invoices) :
              /\ invoices[k].id = lastOp'.arg[1]
              /\ invoices'[k].status # invoices[k].status
    /\ lastOp'.op = "void" =>
          \A k \in 1..Len(invoices) :
              invoices[k].id = lastOp'.arg[1] => invoices'[k].status = "void"

\* C30: void is absorbing (once an invoice is void no drawer action changes
\* its status); the toggle only switches between paid and unpaid; an action
\* changes the status of the invoice with the acted-on id only; and while the
\* drawer is open the status it shows is that of the invoice of the same id
\* in the list.
C30_InvoiceStatusTransitions ==
    /\ []ShownMatchesList
    /\ [][VoidIsAbsorbing /\ OnlyActedOnChanges /\ ActionsAct]_vars

\* the drawer was reopened on an invoice voided earlier, after another
\* invoice was marked paid: the Void button is gone and the toggle disabled
C30_Witness ==
    /\ lastOp.op = "edit"
    /\ DrawerOpen
    /\ activeItem[1].status = "void"
    /\ ~ToggleEnabled
    /\ ~VoidShown
    /\ \E k \in 1..Len(invoices) :
          invoices[k].status = "paid" /\ DemoInvoices[k].status = "unpaid"

=============================================================================
